---- MODULE Spec2Model ----
(***************************************************************************)
(* Model of helpers/powersave.py: the daylight scheduler that stops and    *)
(* starts python.naturewatch.service around sunrise and sunset.            *)
(*                                                                         *)
(* Time is counted in whole hours.  `now` is the system clock (hours since *)
(* the epoch, UTC); a timezone-aware local datetime is a record            *)
(* [date, hour]; two aware datetimes compare by the instant they denote.   *)
(* The clock advances (Tick) while the program is inside a blocking call:   *)
(* the HTTP request, time.sleep and the systemctl subprocess.  Clock reads  *)
(* separated only by computation see the same hour.                        *)
(***************************************************************************)
EXTENDS Integers, Sequences, FiniteSets, TLC

VARIABLES
    now,         \* system clock, epoch hours
    pc,          \* position of main()
    times,       \* retry's parameter `times`
    i,           \* retry's loop variable
    today,       \* get_from_web's local `today` while the call runs
    response,    \* the request's date and the two epoch values of the 200 response
                 \* get_from_web is working on (<<>> when there is none)
    sun_info,    \* main's sun_info: None or a TimeInfo
    step,        \* which of the three if-statements of main is running (1..3)
    target,      \* sleep_until's argument t
    returncode,  \* result.returncode of the last systemctl run
    loglevel,    \* level of the last record written to the log
    uncaught,    \* the exception that ended the process, "none" while it runs
    iter,        \* number of the current iteration of `while True`
    events,      \* what the current iteration has done so far, in order
    fetched,     \* what the successful get_from_web call of this iteration returned
    began,       \* the clock value line 149 read in this iteration (<<>> before)
    lastCmd      \* the last service command issued ("none" before the first)

vars == <<now, pc, times, i, today, response, sun_info, step, target, returncode, loglevel,
          uncaught, iter, events, fetched, began, lastCmd>>

-----------------------------------------------------------------------------
(* Bounds of the model *)

\* the clock stops advancing at this hour (day 3, 04:00 UTC)
Horizon == 76
\* largest `times` retry is started with in SpecRetry
MaxTimes == 6
\* local time = UTC + UtcOffset hours
UtcOffset == 1

(* Constants of the program *)

DayLen == 24
RetryTimes == 5
SunriseHour == 6
SunsetHour == 21
BoundaryHour == 1

\* Optional[T]'s None
None == [none |-> TRUE]

\* local hours of day the provider's answers are drawn from
ProviderHours == {5, 20}

-----------------------------------------------------------------------------
(* datetime *)

\* datetime.datetime.fromtimestamp(ts).astimezone(): epoch hours to local datetime
FromTimestamp(ts) ==
    [date |-> (ts + UtcOffset) \div DayLen, hour |-> (ts + UtcOffset) % DayLen]

\* the instant (epoch hours) an aware local datetime denotes
Instant(dt) == dt.date * DayLen + dt.hour - UtcOffset

\* datetime.datetime.now().astimezone()
LocalNow(clock) == FromTimestamp(clock)

\* datetime.datetime.now().astimezone().date()
Today(clock) == LocalNow(clock).date

\* a < b on aware datetimes
Before(a, b) == Instant(a) < Instant(b)

\* the date of the response kept
ReplaceDateForgotten(dt, day) == dt

\* dt.replace(year=today.year, month=today.month, day=today.day)
ReplaceDate(dt, day) == [date |-> day, hour |-> dt.hour]

\* datetime.datetime.combine(date=today, time=datetime.time(hour=h)).astimezone()
Combine(day, h) == [date |-> day, hour |-> h]

\* dt + datetime.timedelta(days=1)
PlusOneDay(dt) == [date |-> dt.date + 1, hour |-> dt.hour]

\* 01:00 of the same day: the timedelta(days=1) left out
Next1amSameDay(day) == [date |-> day, hour |-> BoundaryHour]

\* next_1am of both constructors
Next1am(day) == PlusOneDay(Combine(day, BoundaryHour))

\* TimeInfo.get_from_web on a 200 response carrying the two epoch values
GetFromWeb(day, sunrise_ts, sunset_ts) ==
    [sunrise  |-> ReplaceDate(FromTimestamp(sunrise_ts), day),
     sunset   |-> ReplaceDate(FromTimestamp(sunset_ts), day),
     next_1am |-> Next1am(day)]

\* 9pm written time(hour=9)
DefaultSunsetAt9(day) ==
    [sunrise  |-> [date |-> day, hour |-> SunriseHour],
     sunset   |-> [date |-> day, hour |-> 9],
     next_1am |-> [date |-> day + 1, hour |-> BoundaryHour]]

\* TimeInfo.default
Default(day) ==
    [sunrise  |-> Combine(day, SunriseHour),
     sunset   |-> Combine(day, SunsetHour),
     next_1am |-> Next1am(day)]

\* the epoch values the provider may put in a 200 response: any of the
\* hours, dated day or (the observed quirk) the day before
Responses(day, hours) ==
    {Instant([date |-> d, hour |-> h]) : d \in {day - 1, day}, h \in hours}

\* what get_from_web raises: assert status_code == 200, json.loads, body["results"]
\* and results["sunrise"], float(), requests.get
FetchErrors ==
    {"AssertionError", "JSONDecodeError", "KeyError", "ValueError", "RequestException"}

\* the subclasses of Exception among what the program raises
ExceptionSubclasses ==
    {"AssertionError", "JSONDecodeError", "KeyError", "ValueError", "RequestException"}

-----------------------------------------------------------------------------
(* retry *)

\* range(0, times + 1): one round too many
InRangeOffByOne(k, n) == k <= n

\* for i in range(0, times): the loop body runs
InRange(k, n) == k < n

\* except requests.RequestException as e: only network errors are caught
CatchesNetworkOnly(e) == e = "RequestException"

\* except Exception as e
Catches(e) == e \in ExceptionSubclasses

\* where retry continues after the caught failure of attempt k of n:
\* logging.warning, then time.sleep(delay_s)
AfterFailure(k, n) == "retry_sleep"

\* try: f()  -- get_from_web reads today's date and sends the request
RetryCall ==
    /\ pc = "retry"
    /\ InRange(i, times)
    /\ today' = Today(now)
    /\ pc' = "get_from_web"
    /\ UNCHANGED <<response, now, times, i, sun_info, step, target, returncode, loglevel,
                   uncaught, iter, events, fetched, began, lastCmd>>

\* requests.get returns a 200 response whose two epoch values denote hours
\* of day among `hours`
Receive(hours) ==
    /\ pc = "get_from_web"
    /\ response = <<>>
    /\ \E sr \in Responses(today, hours), ss \in Responses(today, hours) :
           response' = [date |-> today, sunrise |-> sr, sunset |-> ss]
    /\ UNCHANGED <<now, pc, times, i, today, sun_info, step, target, returncode,
                   loglevel, uncaught, iter, events, fetched, began, lastCmd>>

\* the provider as main meets it
ReceiveResponse == Receive(ProviderHours)

\* the provider answering with any hour of the day
ReceiveAnyResponse == Receive(0 .. DayLen - 1)

\* lines 49-70 build the TimeInfo from the response: return f()
RetrySuccess ==
    /\ pc = "get_from_web"
    /\ response # <<>>
    /\ fetched' = GetFromWeb(today, response.sunrise, response.sunset)
    /\ sun_info' = GetFromWeb(today, response.sunrise, response.sunset)
    /\ events' = Append(events, "ok")
    /\ pc' = "after_retry"
    /\ today' = 0
    /\ UNCHANGED <<response, now, times, i, step, target, returncode, loglevel, uncaught,
                   iter, began, lastCmd>>

\* get_from_web raises / except Exception as e: logging.warning(...)
RetryFailure ==
    /\ pc = "get_from_web"
    /\ \E e \in FetchErrors :
           IF Catches(e)
           THEN /\ pc' = AfterFailure(i, times)
                /\ uncaught' = uncaught
                /\ loglevel' = "WARNING"
           ELSE /\ pc' = "crashed"
                /\ uncaught' = e
                /\ loglevel' = loglevel
    /\ events' = Append(events, "fail")
    /\ today' = 0
    /\ response' = <<>>
    /\ UNCHANGED <<now, times, i, sun_info, step, target, returncode, iter,
                   fetched, began, lastCmd>>

\* time.sleep(delay_s) returns; the next round of the for loop
RetrySleep ==
    /\ pc = "retry_sleep"
    /\ events' = Append(events, "delay")
    /\ i' = i + 1
    /\ pc' = "retry"
    /\ UNCHANGED <<response, now, times, today, sun_info, step, target, returncode, loglevel,
                   uncaught, iter, fetched, began, lastCmd>>

\* the for loop is exhausted: return None
RetryExhausted ==
    /\ pc = "retry"
    /\ ~InRange(i, times)
    /\ sun_info' = None
    /\ pc' = "after_retry"
    /\ UNCHANGED <<response, now, times, i, today, step, target, returncode, loglevel,
                   uncaught, iter, events, fetched, began, lastCmd>>

-----------------------------------------------------------------------------
(* main *)

\* the fallback taken whatever retry returned
UseDefaultAlways(info) == TRUE

\* if sun_info is None
UseDefault(info) == info = None

\* sun_info.sunrise < sun_info.sunset and sun_info.sunset < sun_info.next_1am
Ordered(w) == Before(w.sunrise, w.sunset) /\ Before(w.sunset, w.next_1am)

\* the ordering check raising instead of logging
AfterValidateRaising(ok) == IF ok THEN "check" ELSE "crashed"

\* where main continues after the ordering check: logging.error only
AfterValidate(ok) == "check"

\* the second if-statement written with the instant of the third
StepInstantCopied(w, k) ==
    CASE k = 1 -> w.sunrise
      [] k = 2 -> w.next_1am
      [] k = 3 -> w.next_1am

\* sunrise and sunset exchanged in the first two if-statements
StepInstantSwapped(w, k) ==
    CASE k = 1 -> w.sunset
      [] k = 2 -> w.sunrise
      [] k = 3 -> w.next_1am

\* the instant the k-th if-statement of the loop body compares with and sleeps until
StepInstant(w, k) ==
    CASE k = 1 -> w.sunrise
      [] k = 2 -> w.sunset
      [] k = 3 -> w.next_1am

\* the start and stop of the first two if-statements exchanged
StepCommandSwapped(k) ==
    CASE k = 1 -> "start"
      [] k = 2 -> "stop"
      [] k = 3 -> "stop"

\* start=True in the last if-statement
StepCommandLastStarts(k) ==
    CASE k = 1 -> "stop"
      [] k = 2 -> "start"
      [] k = 3 -> "start"

\* the command the k-th if-statement issues: set_service_state(start=...)
StepCommand(k) ==
    CASE k = 1 -> "stop"
      [] k = 2 -> "start"
      [] k = 3 -> "stop"

\* the name of the k-th instant, for the record of sleeps
StepName(k) ==
    CASE k = 1 -> "sunrise"
      [] k = 2 -> "sunset"
      [] k = 3 -> "next_1am"

\* the comparison written <=
NotYetInclusive(clock, t) == ~Before(t, LocalNow(clock))

\* the comparison written the wrong way round
NotYetReversed(clock, t) == Instant(t) < clock

\* datetime.datetime.now().astimezone() < t
NotYet(clock, t) == Before(LocalNow(clock), t)

\* a sleep that may return before its time
ElapsedEarly(clock, t) == TRUE

\* time.sleep(d) returns once at least d has passed: the clock has reached t
Elapsed(clock, t) == ~Before(LocalNow(clock), t)

\* where main continues after the k-th if-statement
AfterStep(k) == IF k < 3 THEN "check" ELSE "loop"

\* the if-statement main runs after the k-th
NextStep(k) == IF k < 3 THEN k + 1 ELSE k

\* lines 139-142: log sun_info, fall back to the default window
Fallback ==
    /\ pc = "after_retry"
    /\ IF UseDefault(sun_info)
       THEN /\ sun_info' = Default(Today(now))
            /\ events' = Append(events, "default")
            /\ loglevel' = "WARNING"
       ELSE /\ sun_info' = sun_info
            /\ events' = events
            /\ loglevel' = "INFO"
    /\ pc' = "validate"
    /\ response' = <<>>
    /\ UNCHANGED <<now, times, i, today, step, target, returncode, uncaught, iter,
                   fetched, began, lastCmd>>

\* lines 144-147: the ordering check
Validate ==
    /\ pc = "validate"
    /\ IF Ordered(sun_info)
       THEN /\ events' = events
            /\ loglevel' = loglevel
       ELSE /\ events' = Append(events, "order_error")
            /\ loglevel' = "ERROR"
    /\ pc' = AfterValidate(Ordered(sun_info))
    /\ uncaught' = IF AfterValidate(Ordered(sun_info)) = "crashed"
                   THEN "InvariantViolation" ELSE uncaught
    /\ step' = 1
    /\ UNCHANGED <<response, now, times, i, today, sun_info, target, returncode, iter,
                   fetched, began, lastCmd>>

\* the condition of the k-th if-statement
Check(k) ==
    /\ pc = "check"
    /\ IF NotYet(now, StepInstant(sun_info, k))
       THEN /\ pc' = "set_service_state"
            /\ step' = k
       ELSE /\ pc' = AfterStep(k)
            /\ step' = NextStep(k)
    /\ began' = IF k = 1 THEN <<now>> ELSE began
    /\ UNCHANGED <<response, now, times, i, today, sun_info, target, returncode, loglevel,
                   uncaught, iter, events, fetched, lastCmd>>

\* if datetime.datetime.now().astimezone() < sun_info.sunrise
CheckSunrise ==
    /\ step = 1
    /\ Check(1)

\* if datetime.datetime.now().astimezone() < sun_info.sunset
CheckSunset ==
    /\ step = 2
    /\ Check(2)

\* if datetime.datetime.now().astimezone() < sun_info.next_1am
CheckNext1am ==
    /\ step = 3
    /\ Check(3)

\* subprocess.run(args, check=True): a non-zero exit raises
AfterExitChecked(rc) == IF rc = 0 THEN "sleep_until" ELSE "crashed"

\* where the program continues when systemctl has exited with rc: the exit code
\* is logged, set_service_state returns and main calls sleep_until
AfterExit(rc) == "sleep_until"

\* set_service_state(start): log the arguments and run systemctl
RunSystemctl ==
    /\ pc = "set_service_state"
    /\ events' = Append(events, StepCommand(step))
    /\ lastCmd' = StepCommand(step)
    /\ loglevel' = "INFO"
    /\ pc' = "systemctl"
    /\ UNCHANGED <<response, now, times, i, today, sun_info, step, target, returncode,
                   uncaught, iter, fetched, began>>

\* systemctl exits: log the exit code, return, and main calls sleep_until
ExitSystemctl ==
    /\ pc = "systemctl"
    /\ \E rc \in {0, 1} :
           /\ returncode' = rc
           /\ loglevel' = IF rc = 0 THEN "INFO" ELSE "ERROR"
           /\ pc' = AfterExit(rc)
           /\ uncaught' = IF AfterExit(rc) = "crashed"
                          THEN "CalledProcessError" ELSE uncaught
    /\ target' = StepInstant(sun_info, step)
    /\ UNCHANGED <<response, now, times, i, today, sun_info, step, iter, events,
                   fetched, began, lastCmd>>

\* sleep_until(t): delta = t - now; log; time.sleep raises ValueError on a
\* negative delta
SleepUntil ==
    /\ pc = "sleep_until"
    /\ loglevel' = "INFO"
    /\ IF Instant(target) - now < 0
       THEN /\ pc' = "crashed"
            /\ uncaught' = "ValueError: sleep length must be non-negative"
            /\ events' = events
       ELSE /\ pc' = "sleeping"
            /\ uncaught' = uncaught
            /\ events' = Append(events, "sleep_" \o StepName(step))
    /\ UNCHANGED <<response, now, times, i, today, sun_info, step, target, returncode, iter,
                   fetched, began, lastCmd>>

\* time.sleep returns
WakeUp ==
    /\ pc = "sleeping"
    /\ Elapsed(now, target)
    /\ pc' = AfterStep(step)
    /\ step' = NextStep(step)
    /\ UNCHANGED <<response, now, times, i, today, sun_info, target, returncode, loglevel,
                   uncaught, iter, events, fetched, began, lastCmd>>

\* while True: the next iteration
Loop ==
    /\ pc = "loop"
    /\ pc' = "retry"
    /\ i' = 0
    /\ iter' = iter + 1
    /\ events' = <<>>
    /\ fetched' = None
    /\ began' = <<>>
    /\ UNCHANGED <<response, now, times, today, sun_info, step, target, returncode, loglevel,
                   uncaught, lastCmd>>

\* the positions at which the program is inside a blocking call
Blocking == {"get_from_web", "retry_sleep", "systemctl", "sleeping"}

\* the clock advances by one hour
Tick ==
    /\ pc \in Blocking
    /\ response = <<>>
    /\ now < Horizon
    /\ now' = now + 1
    /\ UNCHANGED <<response, pc, times, i, today, sun_info, step, target, returncode,
                   loglevel, uncaught, iter, events, fetched, began, lastCmd>>

-----------------------------------------------------------------------------
(* Specifications *)

\* the hours at which the process may be started
StartTimes == DayLen .. (2 * DayLen - 1)

InitWith(n) ==
    /\ now \in StartTimes
    /\ pc = "retry"
    /\ times = n
    /\ i = 0
    /\ today = 0
    /\ response = <<>>
    /\ sun_info = None
    /\ step = 1
    /\ target = Combine(0, 0)
    /\ returncode = 0
    /\ loglevel = "INFO"
    /\ uncaught = "none"
    /\ iter = 1
    /\ events = <<>>
    /\ fetched = None
    /\ began = <<>>
    /\ lastCmd = "none"

\* main: retry(5, 120, ...)
Init == InitWith(RetryTimes)

Next ==
    \/ RetryCall
    \/ ReceiveResponse
    \/ RetrySuccess
    \/ RetryFailure
    \/ RetrySleep
    \/ RetryExhausted
    \/ Fallback
    \/ Validate
    \/ CheckSunrise
    \/ CheckSunset
    \/ CheckNext1am
    \/ RunSystemctl
    \/ ExitSystemctl
    \/ SleepUntil
    \/ WakeUp
    \/ Loop
    \/ Tick

Spec == Init /\ [][Next]_vars

\* retry on its own, for every `times` up to MaxTimes
InitRetry == \E n \in 0 .. MaxTimes : InitWith(n)

NextRetry ==
    \/ RetryCall
    \/ ReceiveResponse
    \/ RetrySuccess
    \/ RetryFailure
    \/ RetrySleep
    \/ RetryExhausted
    \/ Tick

SpecRetry == InitRetry /\ [][NextRetry]_vars

\* one call of get_from_web on its own, for every start time and every pair of
\* hours of day in the response
NextFetch ==
    \/ RetryCall
    \/ ReceiveAnyResponse
    \/ RetrySuccess

SpecFetch == Init /\ [][NextFetch]_vars

-----------------------------------------------------------------------------
(* Vocabulary of the properties *)

CommandEvents == {"stop", "start"}
SleepEvents == {"sleep_sunrise", "sleep_sunset", "sleep_next_1am"}
AttemptEvents == {"ok", "fail"}

IsCommand(x) == x \in CommandEvents
IsStepEvent(x) == x \in CommandEvents \cup SleepEvents

\* the service commands among the events, in order
Cmds(ev) == SelectSeq(ev, IsCommand)

\* the commands and sleep-untils among the events, in order
StepEvents(ev) == SelectSeq(ev, IsStepEvent)

\* how often x occurs in ev
Count(ev, x) == Cardinality({k \in 1 .. Len(ev) : ev[k] = x})

IsPrefix(a, b) == Len(a) <= Len(b) /\ \A k \in 1 .. Len(a) : a[k] = b[k]

\* a is b with some elements left out (b has three elements)
IsSubseqOfThree(a, b) ==
    \E keep \in SUBSET (1 .. 3) :
        /\ Len(a) = Cardinality(keep)
        /\ \A k \in 1 .. Len(a) :
               LET pos == CHOOSE p \in keep : Cardinality({q \in keep : q < p}) = k - 1
               IN  a[k] = b[pos]

\* the command each instant is paired with, and the record of its sleep
PairedCommand == <<"stop", "start", "stop">>
PairedSleep == <<"sleep_sunrise", "sleep_sunset", "sleep_next_1am">>

\* an action issues a service command
IssuesCommand == Len(events') = Len(events) + 1 /\ events'[Len(events')] \in CommandEvents

\* the positions of main between the ordering check and the end of the iteration
StepPcs == {"check", "set_service_state", "systemctl", "sleep_until", "sleeping", "loop"}

\* the positions of retry
RetryPcs == {"retry", "get_from_web", "retry_sleep"}

-----------------------------------------------------------------------------
(* C1: in every iteration the instants are handled in the order sunrise,   *)
(* sunset, next_1am, each step on its own: when the clock is not before    *)
(* the instant the step issues no command and no sleep, otherwise it       *)
(* issues the paired command and only then sleeps until that instant.  So  *)
(* the commands of an iteration are a subsequence of (stop, start, stop)   *)
(* and every sleep directly follows its paired command.                    *)

C1_Shape ==
    LET se == StepEvents(events) IN
    /\ IsSubseqOfThree(Cmds(events), PairedCommand)
    /\ \A k \in 1 .. Len(se) : \A n \in 1 .. 3 :
           se[k] = PairedSleep[n] => k > 1 /\ se[k - 1] = PairedCommand[n]
    /\ \A k \in 1 .. Len(events) : \A n \in 1 .. 3 :
           events[k] = PairedSleep[n] => k > 1 /\ events[k - 1] = PairedCommand[n]
    /\ \A j, k \in 1 .. Len(se) : \A m, n \in 1 .. 3 :
           (j < k /\ se[j] = PairedSleep[m] /\ se[k] = PairedSleep[n]) => m < n

C1_Step ==
    /\ (pc = "check" /\ ~(now < Instant(StepInstant(sun_info, step)))) =>
           /\ events' = events
           /\ pc' \in {"check", "loop"}
           /\ (pc' = "check" => step' = step + 1)
           /\ (pc' = "loop" => step = 3)
    /\ (pc = "check" /\ now < Instant(StepInstant(sun_info, step))) =>
           /\ events' = events
           /\ pc' = "set_service_state"
           /\ step' = step
    /\ (pc = "set_service_state") =>
           /\ events' = Append(events, PairedCommand[step])
           /\ step' = step
    /\ (pc' = "sleeping" /\ pc # "sleeping") =>
           /\ events' = Append(events, PairedSleep[step])
           /\ events[Len(events)] = PairedCommand[step]
           /\ target = StepInstant(sun_info, step)
           /\ step' = step

C1_StepsInOrder == [](C1_Shape) /\ [][C1_Step]_vars

C1_Witness ==
    /\ pc = "loop"
    /\ StepEvents(events) =
           <<"stop", "sleep_sunrise", "start", "sleep_sunset", "stop", "sleep_next_1am">>

-----------------------------------------------------------------------------
(* C2: when the scheduler starts at a time with sunrise <= now < sunset of *)
(* a well-ordered window, the first service command ever issued is start   *)
(* and the sunrise step (stop, sleep until sunrise) does not run in that   *)
(* cycle.                                                                  *)

\* the clock value with which the iteration entered its three steps (the
\* time the scheduler started at, once its window is there) lies in [lo, hi)
BeganIn(lo, hi) ==
    /\ began # <<>>
    /\ Instant(lo) <= began[1]
    /\ began[1] < Instant(hi)

C2_StartsInDaylight ==
    (/\ iter = 1
     /\ pc \in StepPcs \cup {"crashed"}
     /\ began # <<>>
     /\ Ordered(sun_info)
     /\ BeganIn(sun_info.sunrise, sun_info.sunset))
    => /\ "sleep_sunrise" \notin {events[k] : k \in 1 .. Len(events)}
       /\ IsPrefix(StepEvents(events), <<"start", "sleep_sunset", "stop", "sleep_next_1am">>)
       /\ (lastCmd = "none" => Cmds(events) = <<>> /\ pc \in {"check", "set_service_state"} /\ step = 2)
       /\ (lastCmd # "none" => Cmds(events)[1] = "start")

C2_Witness ==
    /\ iter = 1
    /\ began # <<>>
    /\ Ordered(sun_info)
    /\ BeganIn(sun_info.sunrise, sun_info.sunset)
    /\ pc = "systemctl"
    /\ StepEvents(events) = <<"start">>

-----------------------------------------------------------------------------
(* C3 as stated: starting at 23:00, after sunset and before next_1am of    *)
(* the window built that day, the commands of the first cycle are          *)
(* stop, stop.                                                             *)

StartedAt23 ==
    /\ iter = 1
    /\ began # <<>>
    /\ LocalNow(began[1]).hour = 23
    /\ Ordered(sun_info)
    /\ BeganIn(sun_info.sunset, sun_info.next_1am)

C3_StopStop ==
    (StartedAt23 /\ pc = "loop") => Cmds(events) = <<"stop", "stop">>

(* C3 as amended: starting after sunset and before next_1am of a           *)
(* well-ordered window, the first cycle issues exactly one command, the    *)
(* stop of the next_1am step, before the next window is fetched.           *)

C3_OneStop ==
    (/\ iter = 1
     /\ began # <<>>
     /\ pc \in StepPcs \cup {"crashed"}
     /\ Ordered(sun_info)
     /\ BeganIn(sun_info.sunset, sun_info.next_1am))
    => /\ IsPrefix(StepEvents(events), <<"stop", "sleep_next_1am">>)
       /\ (pc = "loop" => Cmds(events) = <<"stop">>)
       /\ (Cmds(events) = <<>> => pc \in {"check", "set_service_state"})

C3_Witness ==
    /\ StartedAt23
    /\ pc = "loop"
    /\ StepEvents(events) = <<"stop", "sleep_next_1am">>

-----------------------------------------------------------------------------
(* C4: the first fetch attempt of an iteration after the first happens at  *)
(* a time >= next_1am of the window of the iteration before; no second     *)
(* window is fetched before the current window's next_1am has passed.      *)

\* until retry returns, sun_info is still the window of the iteration before
C4_FetchAfterBoundary ==
    (iter > 1 /\ pc \in {"retry", "get_from_web"} /\ i = 0)
    => /\ sun_info # None
       /\ Instant(sun_info.next_1am) <= now

C4_Witness ==
    /\ iter = 2
    /\ pc = "get_from_web"
    /\ i = 0
    /\ now = Instant(sun_info.next_1am)

-----------------------------------------------------------------------------
(* C5: retry(n, d, op) calls op one call after the other, at most n times, *)
(* makes no call after the first success and returns its result, and       *)
(* returns None, never raising, exactly when all n calls fail; for n = 0   *)
(* op is never called and the result is None.                              *)

Attempts(ev) == Count(ev, "ok") + Count(ev, "fail")

C5_Retry ==
    /\ Attempts(events) <= times
    /\ uncaught = "none"
    /\ pc # "crashed"
    /\ Count(events, "ok") <= 1
    /\ Count(events, "ok") = 1 =>
           /\ events[Len(events)] = "ok"
           /\ pc = "after_retry"
           /\ sun_info = fetched
           /\ sun_info # None
    /\ pc = "get_from_web" => Attempts(events) = i /\ i < times
    /\ pc = "after_retry" =>
           /\ (sun_info = None) <=> (Count(events, "fail") = times)
           /\ (sun_info = None) <=> (Count(events, "ok") = 0)
    /\ times = 0 => events = <<>> /\ pc \in {"retry", "after_retry"} /\ sun_info = None

C5_Witness ==
    /\ pc = "after_retry"
    /\ times = 3
    /\ events = <<"fail", "delay", "fail", "delay", "ok">>
    /\ sun_info = fetched

-----------------------------------------------------------------------------
(* C6 as stated: in retry a delay sleep happens only between one attempt   *)
(* and the next one, so after the last failed attempt retry returns None   *)
(* without sleeping: a run whose `times` attempts all fail has slept       *)
(* times - 1 times when it returns.                                        *)

C6_SleepsOnlyBetweenAttempts ==
    (pc = "after_retry" /\ times >= 1 /\ Count(events, "fail") = times)
    => /\ Count(events, "delay") = times - 1
       /\ \A k \in 1 .. Len(events) :
              events[k] = "delay" => k < Len(events) /\ events[k + 1] \in AttemptEvents

-----------------------------------------------------------------------------
(* C7: every iteration makes at most 5 fetch attempts, all of them before  *)
(* any service command or sleep-until of the iteration; the window of the  *)
(* iteration is what the first successful attempt returned, and it is the  *)
(* default window exactly when all 5 attempts failed.                      *)

C7_FetchThenWindow ==
    /\ Attempts(events) <= 5
    /\ Count(events, "ok") <= 1
    /\ \A j, k \in 1 .. Len(events) :
           (j < k /\ IsStepEvent(events[j])) =>
               events[k] \notin AttemptEvents \cup {"delay", "default"}
    /\ (pc \in StepPcs \cup {"validate"}) =>
           /\ sun_info # None
           /\ Count(events, "ok") = 1 =>
                  /\ sun_info = fetched
                  /\ Count(events, "default") = 0
                  /\ \A k \in 1 .. Len(events) :
                         events[k] = "ok" => \A j \in 1 .. k - 1 : events[j] \in {"fail", "delay"}
           /\ Count(events, "ok") = 0 =>
                  /\ Count(events, "fail") = 5
                  /\ Count(events, "default") = 1
                  /\ sun_info = Default(sun_info.sunrise.date)
           /\ (Count(events, "default") = 1) <=> (Count(events, "fail") = 5)

C7_Witness ==
    /\ pc = "systemctl"
    /\ Count(events, "fail") = 2
    /\ Count(events, "ok") = 1
    /\ sun_info = fetched

-----------------------------------------------------------------------------
(* C8: no failure of a fetch attempt ends the scheduler: whatever fails in *)
(* get_from_web, retry goes on, and main reaches the ordering check and    *)
(* the three steps with some window.                                       *)

\* a step of the program between the start of retry and the ordering check
FetchPhaseStep ==
    RetryCall \/ ReceiveResponse \/ RetrySuccess \/ RetryFailure \/ RetrySleep \/ RetryExhausted \/ Fallback

C8_FetchFailureNotFatal ==
    /\ uncaught \notin FetchErrors
    /\ (pc = "crashed") => Count(events, "ok") + Count(events, "default") = 1
    /\ (pc \in RetryPcs \cup {"after_retry"}) => ENABLED FetchPhaseStep
    /\ (pc \in StepPcs \cup {"validate"}) =>
           /\ sun_info # None
           /\ sun_info.next_1am = Next1am(sun_info.sunrise.date)

C8_Witness ==
    /\ pc = "sleeping"
    /\ Count(events, "fail") = 5
    /\ sun_info = Default(sun_info.sunrise.date)

-----------------------------------------------------------------------------
(* C9: a window that violates sunrise < sunset < next_1am is only          *)
(* reported: an error is logged, nothing is raised, the window is neither  *)
(* replaced nor corrected, and the same three steps run on it up to the    *)
(* next iteration's fetch.                                                 *)

C9_ReportOnly ==
    (pc = "validate" /\ ~Ordered(sun_info)) =>
        /\ pc' = "check"
        /\ step' = 1
        /\ sun_info' = sun_info
        /\ uncaught' = "none"
        /\ loglevel' = "ERROR"
        /\ events' = Append(events, "order_error")

C9_WindowKept ==
    (pc \in StepPcs \cup {"validate"}) => sun_info' = sun_info

C9_NoAbort ==
    (Count(events, "order_error") = 1 /\ pc = "crashed") =>
        /\ uncaught = "ValueError: sleep length must be non-negative"
        /\ events[Len(events)] \in CommandEvents

C9_ViolationOnlyLogged ==
    /\ [](C9_NoAbort)
    /\ [][C9_ReportOnly /\ C9_WindowKept]_vars

\* the fetch of the next iteration, reached with the malformed window of this one
C9_Witness ==
    /\ iter = 2
    /\ pc = "get_from_web"
    /\ i = 0
    /\ sun_info # None
    /\ ~Ordered(sun_info)

-----------------------------------------------------------------------------
(* C10 as stated: after any service command, the next service command the  *)
(* scheduler issues requests the opposite transition.                      *)

C10_Alternates ==
    [][(IssuesCommand /\ lastCmd # "none") => lastCmd' # lastCmd]_vars

(* C10 as amended: after a start, the next service command of the same     *)
(* iteration is a stop, whatever the exit code of the start; a stop may be *)
(* followed by a stop.                                                     *)

C10_StartThenStop ==
    [][(IssuesCommand /\ Cmds(events) # <<>> /\ Cmds(events)[Len(Cmds(events))] = "start")
           => /\ lastCmd = "start"
              /\ lastCmd' = "stop"
              /\ events'[Len(events')] = "stop"]_vars

\* the stop that follows a start whose systemctl run exited non-zero
C10_Witness ==
    /\ pc = "systemctl"
    /\ Cmds(events) = <<"start", "stop">>
    /\ returncode = 1

-----------------------------------------------------------------------------
(* C11: a service command that exits non-zero is logged and nothing else:  *)
(* it is not retried, nothing is raised, and the scheduler goes on to the  *)
(* same sleep-until and the same later steps as after a successful one.    *)

C11_Exit ==
    (pc = "systemctl" /\ pc' # "systemctl") =>
        /\ returncode' \in {0, 1}
        /\ (loglevel' = "ERROR") <=> (returncode' # 0)
        /\ pc' = "sleep_until"
        /\ uncaught' = "none"
        /\ events' = events
        /\ lastCmd' = lastCmd
        /\ step' = step
        /\ sun_info' = sun_info
        /\ target' = StepInstant(sun_info, step)
        /\ now' = now

\* the sleep-until after the command is the same whatever the exit code was
C11_Sleep ==
    (pc = "sleep_until") =>
        /\ pc' \in {"sleeping", "crashed"}
        /\ (pc' = "sleeping") <=> (now <= Instant(target))
        /\ Cmds(events') = Cmds(events)
        /\ returncode' = returncode
        /\ loglevel' = "INFO"

C11_FailureOnlyLogged == [][C11_Exit /\ C11_Sleep]_vars

\* asleep after a command that exited non-zero
C11_Witness ==
    /\ pc = "sleeping"
    /\ returncode = 1
    /\ events[Len(events)] \in SleepEvents

-----------------------------------------------------------------------------
(* C12: with a well-ordered window the first command of the scheduler      *)
(* matches daylight for the time it starts its steps at: start when        *)
(* sunrise <= now < sunset, stop otherwise; and whenever the scheduler is  *)
(* asleep in sleep_until, the last command was start exactly when it       *)
(* sleeps until sunset, and stop when it sleeps until sunrise or next_1am. *)

C12_MatchesDaylight ==
    /\ (/\ pc \in StepPcs \cup {"crashed"}
        /\ began # <<>>
        /\ Ordered(sun_info)
        /\ Cmds(events) # <<>>)
       => Cmds(events)[1] =
              (IF Instant(sun_info.sunrise) <= began[1] /\ began[1] < Instant(sun_info.sunset)
               THEN "start" ELSE "stop")
    /\ (/\ pc \in {"systemctl", "sleep_until", "sleeping", "loop", "crashed"}
        /\ began # <<>>
        /\ Ordered(sun_info)
        /\ began[1] < Instant(sun_info.next_1am))
       => Cmds(events) # <<>>
    /\ (pc = "sleeping") =>
           /\ events[Len(events)] \in SleepEvents
           /\ (lastCmd = "start") <=> (events[Len(events)] = "sleep_sunset")
           /\ (lastCmd = "stop") <=> (events[Len(events)] \in {"sleep_sunrise", "sleep_next_1am"})
           /\ Ordered(sun_info) => ((lastCmd = "start") <=> (target = sun_info.sunset))

C12_Witness ==
    /\ pc = "sleeping"
    /\ iter = 1
    /\ Ordered(sun_info)
    /\ BeganIn(sun_info.sunrise, sun_info.sunset)
    /\ target = sun_info.sunset
    /\ lastCmd = "start"

-----------------------------------------------------------------------------
(* C13 as stated: the scheduler has no terminal state; every iteration     *)
(* completes and a new window is fetched again and again.  A run in which  *)
(* the process has ended refutes it.                                       *)

C13_NoTerminalState ==
    /\ pc # "crashed"
    /\ uncaught = "none"

-----------------------------------------------------------------------------
(* C14: default() called on the local date D yields sunrise 06:00 on D,    *)
(* sunset 21:00 on D and next_1am 01:00 on D + 1, a window that satisfies  *)
(* sunrise < sunset < next_1am and is never reported as mis-ordered.       *)

C14_DefaultWindow ==
    (Count(events, "default") = 1 /\ pc \in StepPcs \cup {"validate", "crashed"}) =>
        /\ sun_info.sunrise = [date |-> sun_info.sunrise.date, hour |-> 6]
        /\ sun_info.sunset = [date |-> sun_info.sunrise.date, hour |-> 21]
        /\ sun_info.next_1am = [date |-> sun_info.sunrise.date + 1, hour |-> 1]
        /\ (pc = "validate" => sun_info.sunrise.date = (now + UtcOffset) \div 24)
        /\ Instant(sun_info.sunrise) + 15 = Instant(sun_info.sunset)
        /\ Instant(sun_info.sunset) + 4 = Instant(sun_info.next_1am)
        /\ Count(events, "order_error") = 0
        /\ (pc # "validate" => loglevel # "ERROR" \/ returncode = 1)

C14_Witness ==
    /\ pc = "check"
    /\ step = 1
    /\ Count(events, "default") = 1
    /\ sun_info.sunrise.date = 2
    /\ loglevel = "WARNING"

-----------------------------------------------------------------------------
(* C15: for every successful response, whatever date its two instants      *)
(* carry, sunrise and sunset of the window fall on the local date of the   *)
(* request and keep the local time of day of the response; next_1am is     *)
(* 01:00 of the day after, whatever the response.                          *)

\* the local hour of day of an epoch value
LocalHourOf(ts) == (ts + UtcOffset) % 24

\* the local date of an epoch value
LocalDateOf(ts) == (ts + UtcOffset) \div 24

C15_TodayWithReturnedTime ==
    (pc = "after_retry" /\ response # <<>>) =>
        /\ sun_info = fetched
        /\ sun_info.sunrise = [date |-> response.date, hour |-> LocalHourOf(response.sunrise)]
        /\ sun_info.sunset = [date |-> response.date, hour |-> LocalHourOf(response.sunset)]
        /\ sun_info.next_1am = [date |-> response.date + 1, hour |-> 1]
        /\ response.date = LocalDateOf(now)

\* a window built from a response whose instants are dated the day before
C15_Witness ==
    /\ pc = "after_retry"
    /\ response # <<>>
    /\ LocalDateOf(response.sunrise) = response.date - 1
    /\ LocalDateOf(response.sunset) = response.date - 1
    /\ sun_info.sunrise.date = response.date
    /\ sun_info.sunrise.hour = 5

-----------------------------------------------------------------------------
(* C16 as stated: sleep_until never sleeps a negative time: when it        *)
(* computes t - now, now <= t holds.                                       *)

C16_NeverNegative ==
    /\ (pc = "sleep_until") => now <= Instant(target)
    /\ uncaught # "ValueError: sleep length must be non-negative"

-----------------------------------------------------------------------------
(* C17 as stated: the scheduler never issues two start commands without a  *)
(* stop between them, across iterations, whatever the windows and however  *)
(* late a sleep wakes.                                                     *)

C17_NoDoubleStart ==
    [][(IssuesCommand /\ events'[Len(events')] = "start") => lastCmd # "start"]_vars

-----------------------------------------------------------------------------
(* C18: every window built from a successful response has                  *)
(* sunrise < next_1am and sunset < next_1am, because both are put on       *)
(* today's date and next_1am is 01:00 tomorrow; the only way it can be     *)
(* mis-ordered is sunset <= sunrise.                                       *)

C18_BeforeBoundary ==
    (fetched # None) =>
        /\ Instant(fetched.sunrise) < Instant(fetched.next_1am)
        /\ Instant(fetched.sunset) < Instant(fetched.next_1am)
        /\ fetched.sunrise.date = fetched.sunset.date
        /\ fetched.next_1am.date = fetched.sunset.date + 1
        /\ ~Ordered(fetched) => Instant(fetched.sunset) <= Instant(fetched.sunrise)

\* a mis-ordered response with the latest hour of the day
C18_Witness ==
    /\ fetched # None
    /\ ~Ordered(fetched)
    /\ fetched.sunrise.hour = 23
    /\ fetched.sunset.hour = 0

-----------------------------------------------------------------------------
(* C19: an iteration whose window has sunset <= sunrise issues no start,   *)
(* whatever the time it begins at: its only commands are stops.            *)

C19_NoStartWhenReversed ==
    (/\ pc \in StepPcs \cup {"crashed"}
     /\ Instant(sun_info.sunset) <= Instant(sun_info.sunrise))
    => /\ Count(events, "start") = 0
       /\ \A k \in 1 .. Len(Cmds(events)) : Cmds(events)[k] = "stop"
       /\ Count(events, "sleep_sunset") = 0

\* such an iteration, begun before its sunset, at its end
C19_Witness ==
    /\ pc = "loop"
    /\ Instant(sun_info.sunset) < Instant(sun_info.sunrise)
    /\ began # <<>>
    /\ began[1] < Instant(sun_info.sunset)
    /\ Cmds(events) = <<"stop", "stop">>

====
